---- MODULE Spec2Model ----
(***************************************************************************)
(* Model of the archive multiplexer of common/archive/multiplexer.go:      *)
(* producer handles (MuxIn) that buffer records and ship them to the       *)
(* Multiplexer over an unbuffered data channel / ack channel pair, and the *)
(* Multiplexer's Run loop that frames the shipments into the sink (Out).   *)
(*                                                                         *)
(* Bytes are small naturals.  A record is <<size, body..., 0>>: a length   *)
(* prefix (one cell here, four little-endian bytes in the source), a body  *)
(* and a terminating zero.  Each Out.Write call that the sink accepts      *)
(* appends one item to the sink.                                           *)
(***************************************************************************)
EXTENDS Integers, Sequences, FiniteSets, TLC

\* ------------------------------------------------------------------ bounds
\* capacity of a handle's accumulation buffer (db.MaxBSONSize, scaled down)
bufferSize == 4
\* Write calls per producer
MaxWrites == 2
\* Open calls per producer (a second Open is a repeated open)
MaxOpens == 2
\* sink faults (errors or short writes) per behaviour
MaxFaults == 1

\* width of the checksum, scaled down from 64 bits
HashBits == 8
HashMod == 2 ^ HashBits

Producers == {"p1", "p2"}
\* every handle there is; the third one is opened only where three are needed
Handles == Producers \cup {"p3"}
Namespaces == {"a.x", "b.y"}
NoNamespace == ""
NilHandle == "nil"
ControlChan == <<"Control", 0>>

\* the inputs of Write: one record, or several whole records concatenated
R1 == <<2, 0>>
R2 == <<3, 1, 0>>
WriteInputs == {R1, R2}
\* one kind of record, where the content written does not matter
OneInput == {R2}
\* an input that fits the buffer and one, of two records, that is longer than it
BigInputs == {R1, R2 \o R2}

\* ------------------------------------------------------------------ state
VARIABLES
    intent,            \* MuxIn.Intent: the namespace of each handle
    pc,                \* where each producer is in Open / Write / Close
    gen,               \* which make(chan) of Open the handle's channels are (0: nil)
    buf,               \* MuxIn.buf
    bufCap,            \* cap(MuxIn.buf)
    hash,              \* MuxIn.hash (state of the running checksum)
    pending,           \* the argument of the Write call in progress
    ack,               \* the length received from writeLenChan
    ret,               \* the error the last Open/Write/Close call returned
    closedChans,       \* the data/ack channel pairs that have been closed
    ins,               \* Multiplexer.ins
    selectCases,       \* Multiplexer.selectCases (the channel of each case)
    currentNamespace,  \* Multiplexer.currentNamespace
    muxpc,             \* where Run is: select, body, publish, returned
    cur,               \* the (index, value) reflect.Select returned
    muxErr,            \* the value Run is sending on Completed
    sink,              \* what Out has accepted, one item per Write call
    outClosed,         \* Out.Close() has been called
    ctlClosed,         \* the Control channel has been closed
    completed,         \* the values received from Completed
    panicked,          \* a goroutine panicked (the process is gone)
    \* history
    written,           \* per producer, the bytes passed to Write, in order
    calls,             \* per producer, the arguments of its Write calls, in order
    shipped,           \* per producer, the buffers it sent on its data channel
    opens,             \* Open calls per producer
    writes,            \* Write calls per producer
    registered,        \* the handles Run received on Control, in order
    faultLog,          \* the sink faults so far: handler, Out.Write call, kind
    sinkFor,           \* per sink item, the handle Run wrote it for
    cleanClose         \* Control was closed after every producer's Close returned

hvars == <<intent, pc, gen, buf, bufCap, hash, pending, ack, ret, closedChans>>
mvars == <<ins, selectCases, currentNamespace, muxpc, cur, muxErr>>
ovars == <<sink, outClosed, ctlClosed, completed, panicked>>
histvars == <<written, calls, shipped, opens, writes, registered, faultLog, sinkFor, cleanClose>>
vars == <<hvars, mvars, ovars, histvars>>

\* ------------------------------------------------------------------ helpers
Max(a, b) == IF a >= b THEN a ELSE b

\* the data channel (and its ack channel) the handle currently holds
ChanOf(p) == <<p, gen[p]>>

NoCur == [index |-> 0, bytes |-> <<>>]

\* sink items
Terminator == [kind |-> "term", ns |-> NoNamespace, crc |-> 0, bytes |-> <<>>]
Header(n) == [kind |-> "hdr", ns |-> n, crc |-> 0, bytes |-> <<>>]
EOFHeader(n, c) == [kind |-> "eof", ns |-> n, crc |-> c, bytes |-> <<>>]
Data(b) == [kind |-> "data", ns |-> NoNamespace, crc |-> 0, bytes |-> b]
Partial == [kind |-> "partial", ns |-> NoNamespace, crc |-> 0, bytes |-> <<>>]

\* ------------------------------------------------------------------ checksum
\* hash.Write: the running checksum folded over the bytes, in order
RECURSIVE hashWrite(_, _)
hashWrite(h, bytes) ==
    IF bytes = <<>> THEN h
    ELSE hashWrite((h * 31 + Head(bytes) + 1) % HashMod, Tail(bytes))

\* int64(hash.Sum64()): the unsigned sum reinterpreted as a signed integer
Sum64AsInt64(h) == IF h >= HashMod \div 2 THEN h - HashMod ELSE h

\* ------------------------------------------------------------------ the sink
\* The outcome of one Out.Write call: accepted in full, an error, or a short
\* write (fewer bytes accepted than offered, no error).  flt names which of a
\* handler's Out.Write calls, counted in program order, meets the fault.
NoFault == [at |-> 0, kind |-> "ok", n |-> 0]
\* the length a short write of len bytes returns: all but the last byte
ShortLens(len) == {m \in {len - 1} : 0 <= m}
FaultChoices(len) ==
    {NoFault}
      \cup {[at |-> k, kind |-> "err", n |-> 0] : k \in 1..3}
      \cup {[at |-> k, kind |-> "short", n |-> 0] : k \in 1..2}
      \cup {[at |-> 3, kind |-> "short", n |-> m] : m \in ShortLens(len)}
FaultsOfEOF == {f \in FaultChoices(1) : f.n = 0}

\* Out.Write(item): the sink after the call, the length and the error returned.
\* full: the returned length equals the length offered.
OutWrite(snk, item, k, flt) ==
    IF flt.at # k
    THEN [sink |-> IF item.kind = "data" /\ item.bytes = <<>> THEN snk
                   ELSE Append(snk, item),
          n |-> Len(item.bytes), full |-> TRUE, err |-> "nil"]
    ELSE IF flt.kind = "err"
    THEN [sink |-> snk, n |-> 0, full |-> FALSE, err |-> "SinkIO"]
    ELSE [sink |-> IF item.kind = "data"
                   THEN (IF flt.n = 0 THEN snk
                         ELSE Append(snk, Data(SubSeq(item.bytes, 1, flt.n))))
                   ELSE Append(snk, Partial),
          n |-> flt.n, full |-> FALSE, err |-> "nil"]

\* the checks after a framing write: err != nil, then l != len(...)
FramingErr(w) ==
    IF w.err # "nil" THEN w.err ELSE IF ~w.full THEN "ShortWrite" ELSE "nil"

NoAck == 0 - 1

\* the fault log after a handler that met fault flt (flt.at = 0: none)
LogFault(log, handler, flt) ==
    IF flt.at = 0 THEN log
    ELSE Append(log, [handler |-> handler, at |-> flt.at, kind |-> flt.kind])

\* formatBody's check after the write of the bytes: the error alone; the
\* length goes to the handle
BodyErr_LengthChecked(w) == IF w.err # "nil" THEN w.err ELSE IF ~w.full THEN "ShortWrite" ELSE "nil"
BodyErr(w) == w.err

\* formatBody's test for a change of namespace
NeedHeader_Always(inNs, cns) == TRUE
NeedHeader_Never(inNs, cns) == FALSE
NeedHeader(inNs, cns) == inNs # cns

\* the test, in formatBody and formatEOF, for a block in progress to terminate
NeedTerminator_Never(cns) == FALSE
NeedTerminator(cns) == cns # NoNamespace

\* formatBody: a new header when the namespace changes (with a terminator to
\* end the block in progress), then the bytes; the length the sink accepted
\* goes to the handle's ack channel.  Returns the sink and currentNamespace
\* after the call, the error returned, the ack sent (NoAck: none) and whether
\* the fault was met.
formatBody(snk, cns, inNs, bsonBytes, flt) ==
    LET needHdr == NeedHeader(inNs, cns)
        needTerm == needHdr /\ NeedTerminator(cns)
        w1 == OutWrite(snk, Terminator, 1, flt)
        e1 == IF needTerm THEN FramingErr(w1) ELSE "nil"
        s1 == IF needTerm THEN w1.sink ELSE snk
        w2 == OutWrite(s1, Header(inNs), 2, flt)
        e2 == IF needHdr THEN FramingErr(w2) ELSE "nil"
        s2 == IF needHdr THEN w2.sink ELSE s1
        w3 == OutWrite(s2, Data(bsonBytes), 3, flt)
    IN  IF e1 # "nil"
        THEN [sink |-> s1, cns |-> cns, err |-> e1, ack |-> NoAck, hit |-> TRUE]
        ELSE IF e2 # "nil"
        THEN [sink |-> s2, cns |-> cns, err |-> e2, ack |-> NoAck, hit |-> TRUE]
        ELSE IF BodyErr(w3) # "nil"
        THEN [sink |-> w3.sink, cns |-> inNs, err |-> BodyErr(w3), ack |-> NoAck,
              hit |-> TRUE]
        ELSE [sink |-> w3.sink, cns |-> inNs, err |-> "nil", ack |-> w3.n,
              hit |-> (flt.at = 3)]

\* formatEOF: a terminator if a block is in progress, the eof header with the
\* handle's checksum, a terminator.
formatEOF(snk, cns, inNs, inHash, flt) ==
    LET needTerm == NeedTerminator(cns)
        w1 == OutWrite(snk, Terminator, 1, flt)
        e1 == IF needTerm THEN FramingErr(w1) ELSE "nil"
        s1 == IF needTerm THEN w1.sink ELSE snk
        w2 == OutWrite(s1, EOFHeader(inNs, Sum64AsInt64(inHash)), 2, flt)
        e2 == FramingErr(w2)
        w3 == OutWrite(w2.sink, Terminator, 3, flt)
        e3 == FramingErr(w3)
    IN  IF e1 # "nil" THEN [sink |-> s1, err |-> e1, hit |-> TRUE]
        ELSE IF e2 # "nil" THEN [sink |-> w2.sink, err |-> e2, hit |-> TRUE]
        ELSE [sink |-> w3.sink, err |-> e3, hit |-> (flt.at = 3)]

\* ------------------------------------------------------------------ Init
\* NewMultiplexer, and handles bound to their intents but not yet opened
Init ==
    /\ intent \in {f \in [Handles -> Namespaces] : f["p1"] = "a.x" /\ f["p3"] = "b.y"}
    /\ pc = [p \in Handles |-> "idle"]
    /\ gen = [p \in Handles |-> 0]
    /\ buf = [p \in Handles |-> <<>>]
    /\ bufCap = [p \in Handles |-> 0]
    /\ hash = [p \in Handles |-> 0]
    /\ pending = [p \in Handles |-> <<>>]
    /\ ack = [p \in Handles |-> 0]
    /\ ret = [p \in Handles |-> [call |-> "none", err |-> "nil"]]
    /\ closedChans = {}
    /\ ins = <<NilHandle>>
    /\ selectCases = <<ControlChan>>
    /\ currentNamespace = NoNamespace
    /\ muxpc = "select"
    /\ cur = NoCur
    /\ muxErr = "nil"
    /\ sink = <<>>
    /\ outClosed = FALSE
    /\ ctlClosed = FALSE
    /\ completed = <<>>
    /\ panicked = FALSE
    /\ written = [p \in Handles |-> <<>>]
    /\ calls = [p \in Handles |-> <<>>]
    /\ shipped = [p \in Handles |-> <<>>]
    /\ opens = [p \in Handles |-> 0]
    /\ writes = [p \in Handles |-> 0]
    /\ registered = <<>>
    /\ faultLog = <<>>
    /\ sinkFor = <<>>
    /\ cleanClose = FALSE

\* ------------------------------------------------------------------ MuxIn
\* what MuxIn.Open assigns before its send on Control: new channels, a new
\* buffer and a new checksum.  Nothing in Open looks at whether the handle is
\* open already.
OpenAssign(p) ==
    /\ opens' = [opens EXCEPT ![p] = @ + 1]
    /\ gen' = [gen EXCEPT ![p] = @ + 1]
    /\ buf' = [buf EXCEPT ![p] = <<>>]
    /\ bufCap' = [bufCap EXCEPT ![p] = bufferSize]
    /\ hash' = [hash EXCEPT ![p] = 0]
    /\ pc' = [pc EXCEPT ![p] = "open_send"]
    /\ UNCHANGED <<intent, pending, ack, ret, closedChans>>
    /\ UNCHANGED <<mvars, ovars, written, calls, shipped, writes, registered, faultLog, sinkFor, cleanClose>>

\* MuxIn.Open, first call on the handle, up to the send on Control
OpenCall(p) ==
    /\ ~panicked
    /\ pc[p] = "idle"
    /\ OpenAssign(p)

\* MuxIn.Open called again on a handle that is open, up to the send on Control
ReOpenCall(p) ==
    /\ ~panicked
    /\ pc[p] = "ready"
    /\ opens[p] < MaxOpens
    /\ OpenAssign(p)

\* the send on Control of MuxIn.Open when Control is closed: a panic
OpenSendClosed(p) ==
    /\ ~panicked
    /\ pc[p] = "open_send"
    /\ ctlClosed
    /\ panicked' = TRUE
    /\ UNCHANGED <<hvars, mvars, sink, outClosed, ctlClosed, completed, histvars>>

\* cap(muxIn.buf) after append(muxIn.buf, b...): unchanged while the result
\* fits; otherwise append allocates, at least the length needed and, by the
\* runtime's growth rule for small slices, twice the old capacity when that
\* is enough.
CapAfterAppend(c, newLen) ==
    IF newLen <= c THEN c ELSE Max(newLen, 2 * c)

\* MuxIn.Write up to the send or the return: ship the buffer first when the
\* argument does not fit, else append it.
WriteCall(p, b) ==
    /\ ~panicked
    /\ pc[p] = "ready"
    /\ writes[p] < MaxWrites
    /\ writes' = [writes EXCEPT ![p] = @ + 1]
    /\ written' = [written EXCEPT ![p] = @ \o b]
    /\ calls' = [calls EXCEPT ![p] = Append(@, b)]
    /\ IF Len(buf[p]) + Len(b) > bufCap[p]
       THEN /\ pc' = [pc EXCEPT ![p] = "w_send"]
            /\ pending' = [pending EXCEPT ![p] = b]
            /\ UNCHANGED <<buf, bufCap, ret>>
       ELSE /\ buf' = [buf EXCEPT ![p] = @ \o b]
            /\ bufCap' = [bufCap EXCEPT ![p] = CapAfterAppend(@, Len(buf[p]) + Len(b))]
            /\ ret' = [ret EXCEPT ![p] = [call |-> "Write", err |-> "nil"]]
            /\ UNCHANGED <<pc, pending>>
    /\ UNCHANGED <<intent, gen, hash, ack, closedChans>>
    /\ UNCHANGED <<mvars, ovars, shipped, opens, registered, faultLog, sinkFor, cleanClose>>

\* the buffer after a flush: muxIn.buf[:0], then the argument appended
AfterFlush_NotTruncated(b, arg) == b \o arg
AfterFlush(b, arg) == arg

\* MuxIn.Write after the ack: ShortWrite when the length differs (the buffer
\* is left as it was and the argument is dropped), else truncate and append.
WriteResume(p) ==
    /\ ~panicked
    /\ pc[p] = "w_acked"
    /\ IF ack[p] # Len(buf[p])
       THEN /\ ret' = [ret EXCEPT ![p] = [call |-> "Write", err |-> "ShortWrite"]]
            /\ UNCHANGED <<buf, bufCap>>
       ELSE /\ buf' = [buf EXCEPT ![p] = AfterFlush(@, pending[p])]
            /\ bufCap' = [bufCap EXCEPT ![p] =
                             CapAfterAppend(@, Len(AfterFlush(buf[p], pending[p])))]
            /\ ret' = [ret EXCEPT ![p] = [call |-> "Write", err |-> "nil"]]
    /\ pc' = [pc EXCEPT ![p] = "ready"]
    /\ pending' = [pending EXCEPT ![p] = <<>>]
    /\ ack' = [ack EXCEPT ![p] = 0]
    /\ UNCHANGED <<intent, gen, hash, closedChans>>
    /\ UNCHANGED <<mvars, ovars, histvars>>

\* MuxIn.Close up to the send of the buffer (sent whatever its length)
CloseCall(p) ==
    /\ ~panicked
    /\ pc[p] = "ready"
    /\ pc' = [pc EXCEPT ![p] = "c_send"]
    /\ UNCHANGED <<intent, gen, buf, bufCap, hash, pending, ack, ret, closedChans>>
    /\ UNCHANGED <<mvars, ovars, histvars>>

\* MuxIn.Close called again after it closed the channels: the send on the
\* closed data channel panics
CloseAgain(p) ==
    /\ ~panicked
    /\ pc[p] = "closed"
    /\ ChanOf(p) \in closedChans
    /\ panicked' = TRUE
    /\ UNCHANGED <<hvars, mvars, sink, outClosed, ctlClosed, completed, histvars>>

\* MuxIn.Close after the ack: ShortWrite, returned before the channels are
\* closed, when the length differs; else drop the buffer and close both
\* channels.
CloseResume(p) ==
    /\ ~panicked
    /\ pc[p] = "c_acked"
    /\ IF ack[p] # Len(buf[p])
       THEN /\ ret' = [ret EXCEPT ![p] = [call |-> "Close", err |-> "ShortWrite"]]
            /\ pc' = [pc EXCEPT ![p] = "ready"]
            /\ UNCHANGED <<buf, bufCap, closedChans>>
       ELSE /\ buf' = [buf EXCEPT ![p] = <<>>]
            /\ bufCap' = [bufCap EXCEPT ![p] = 0]
            /\ closedChans' = closedChans \cup {ChanOf(p)}
            /\ ret' = [ret EXCEPT ![p] = [call |-> "Close", err |-> "nil"]]
            /\ pc' = [pc EXCEPT ![p] = "closed"]
    /\ ack' = [ack EXCEPT ![p] = 0]
    /\ UNCHANGED <<intent, gen, hash, pending>>
    /\ UNCHANGED <<mvars, ovars, histvars>>

\* ------------------------------------------------------------------ Multiplexer.Run
\* append(s[:index], s[index+1:]...)
RemoveAt(s, index) == SubSeq(s, 1, index - 1) \o SubSeq(s, index + 1, Len(s))

\* the wait state a sender enters once its buffer is received, and the state
\* it enters once the ack is received
Waiting_NotBlocked(st) == "ready"
Waiting(st) == IF st = "w_send" THEN "w_wait" ELSE "c_wait"
Acked_Stuck(st) == st
Acked(st) == IF st = "w_wait" THEN "w_acked" ELSE "c_acked"

\* Select returns the Control case with a value: register the handle.  The
\* send of MuxIn.Open completes and Open returns nil.
MuxControlRecv(p) ==
    /\ ~panicked
    /\ muxpc = "select"
    /\ pc[p] = "open_send"
    /\ ~ctlClosed
    /\ selectCases' = Append(selectCases, ChanOf(p))
    /\ ins' = Append(ins, p)
    /\ registered' = Append(registered, p)
    /\ pc' = [pc EXCEPT ![p] = "ready"]
    /\ ret' = [ret EXCEPT ![p] = [call |-> "Open", err |-> "nil"]]
    /\ UNCHANGED <<intent, gen, buf, bufCap, hash, pending, ack, closedChans>>
    /\ UNCHANGED <<currentNamespace, muxpc, cur, muxErr>>
    /\ UNCHANGED <<ovars, written, calls, shipped, opens, writes, faultLog, sinkFor, cleanClose>>

MuxControlEOF_CloseOnSuccess ==
    /\ ~panicked
    /\ muxpc = "select"
    /\ ctlClosed
    /\ outClosed' = (Len(selectCases) = 1)
    /\ muxErr' = IF Len(selectCases) # 1 THEN "DanglingStreams" ELSE "nil"
    /\ muxpc' = "publish"
    /\ UNCHANGED <<hvars, ins, selectCases, currentNamespace, cur>>
    /\ UNCHANGED <<sink, ctlClosed, completed, panicked, histvars>>

\* Select returns the Control case closed: Out is closed, then the cases
\* still registered decide the value sent on Completed.
MuxControlEOF ==
    /\ ~panicked
    /\ muxpc = "select"
    /\ ctlClosed
    /\ outClosed' = TRUE
    /\ muxErr' = IF Len(selectCases) # 1 THEN "DanglingStreams" ELSE "nil"
    /\ muxpc' = "publish"
    /\ UNCHANGED <<hvars, ins, selectCases, currentNamespace, cur>>
    /\ UNCHANGED <<sink, ctlClosed, completed, panicked, histvars>>

\* Select returns data case index with a value: the buffer a handle is
\* sending.  The sender goes on to wait for the ack.
MuxDataRecv(index) ==
    /\ ~panicked
    /\ muxpc = "select"
    /\ index \in 2..Len(selectCases)
    /\ \E p \in Handles :
         /\ pc[p] \in {"w_send", "c_send"}
         /\ ChanOf(p) = selectCases[index]
         /\ cur' = [index |-> index, bytes |-> buf[p]]
         /\ pc' = [pc EXCEPT ![p] = Waiting(@)]
         /\ shipped' = [shipped EXCEPT ![p] = Append(@, buf[p])]
    /\ muxpc' = "body"
    /\ UNCHANGED <<intent, gen, buf, bufCap, hash, pending, ack, ret, closedChans>>
    /\ UNCHANGED <<ins, selectCases, currentNamespace, muxErr>>
    /\ UNCHANGED <<ovars, written, calls, opens, writes, registered, faultLog, sinkFor, cleanClose>>

\* the handle whose checksum Run updates for the buffer received
HashTarget_First(index) == ins[2]
HashTarget(index) == ins[index]

\* currentNamespace after the close of a data channel was processed
NamespaceAfterEOF_Kept(cns) == cns
NamespaceAfterEOF(cns) == NoNamespace

\* Run on a received buffer: update the checksum of ins[index], formatBody
\* (which sends the ack), and on an error send it on Completed and return.
MuxDataBody(flt) ==
    /\ ~panicked
    /\ muxpc = "body"
    /\ LET in == ins[cur.index]
           r == formatBody(sink, currentNamespace, intent[in], cur.bytes, flt)
       IN  /\ flt.at # 0 => (r.hit /\ Len(faultLog) < MaxFaults)
           /\ faultLog' = LogFault(faultLog, "body", flt)
           /\ sinkFor' = sinkFor \o [k \in 1..(Len(r.sink) - Len(sink)) |-> in]
           /\ hash' = [hash EXCEPT ![HashTarget(cur.index)] = hashWrite(@, cur.bytes)]
           /\ sink' = r.sink
           /\ currentNamespace' = r.cns
           /\ IF r.ack # NoAck
              THEN /\ ack' = [ack EXCEPT ![in] = r.ack]
                   /\ pc' = [pc EXCEPT ![in] = Acked(@)]
              ELSE UNCHANGED <<ack, pc>>
           /\ IF r.err # "nil"
              THEN /\ muxErr' = r.err
                   /\ muxpc' = "publish"
              ELSE /\ muxpc' = "select"
                   /\ UNCHANGED muxErr
    /\ cur' = NoCur
    /\ UNCHANGED <<intent, gen, buf, bufCap, pending, ret, closedChans>>
    /\ UNCHANGED <<ins, selectCases>>
    /\ UNCHANGED <<outClosed, ctlClosed, completed, panicked>>
    /\ UNCHANGED <<written, calls, shipped, opens, writes, registered, cleanClose>>

\* Select returns data case index closed: formatEOF, then forget the
\* namespace and drop the case and the handle; on an error send it on
\* Completed and return.
MuxDataEOF(index, flt) ==
    /\ ~panicked
    /\ muxpc = "select"
    /\ index \in 2..Len(selectCases)
    /\ selectCases[index] \in closedChans
    /\ LET in == ins[index]
           r == formatEOF(sink, currentNamespace, intent[in], hash[in], flt)
       IN  /\ flt.at # 0 => (r.hit /\ Len(faultLog) < MaxFaults)
           /\ faultLog' = LogFault(faultLog, "eof", flt)
           /\ sinkFor' = sinkFor \o [k \in 1..(Len(r.sink) - Len(sink)) |-> in]
           /\ sink' = r.sink
           /\ IF r.err # "nil"
              THEN /\ muxErr' = r.err
                   /\ muxpc' = "publish"
                   /\ UNCHANGED <<currentNamespace, selectCases, ins>>
              ELSE /\ currentNamespace' = NamespaceAfterEOF(currentNamespace)
                   /\ selectCases' = RemoveAt(selectCases, index)
                   /\ ins' = RemoveAt(ins, index)
                   /\ UNCHANGED <<muxErr, muxpc>>
    /\ UNCHANGED <<hvars, cur>>
    /\ UNCHANGED <<outClosed, ctlClosed, completed, panicked>>
    /\ UNCHANGED <<written, calls, shipped, opens, writes, registered, cleanClose>>

\* ------------------------------------------------------------------ the owner
\* close(mux.Control)
OwnerCloseControl ==
    /\ ~panicked
    /\ ~ctlClosed
    /\ ctlClosed' = TRUE
    /\ cleanClose' = \A p \in Producers : pc[p] = "closed"
    /\ UNCHANGED <<hvars, mvars, sink, outClosed, completed, panicked>>
    /\ UNCHANGED <<written, calls, shipped, opens, writes, registered, faultLog, sinkFor>>

\* <-mux.Completed, after the close of Control; Run's send completes and Run
\* returns
OwnerRecvCompleted ==
    /\ ~panicked
    /\ ctlClosed
    /\ muxpc = "publish"
    /\ completed' = Append(completed, muxErr)
    /\ muxpc' = "returned"
    /\ UNCHANGED <<hvars, ins, selectCases, currentNamespace, cur, muxErr>>
    /\ UNCHANGED <<sink, outClosed, ctlClosed, panicked, histvars>>

\* ------------------------------------------------------------------ Spec
\* the sink never fails; every handle is opened once and closed at most once
Next ==
    \/ \E p \in Producers : OpenCall(p)
    \/ \E p \in Producers : OpenSendClosed(p)
    \/ \E p \in Producers, b \in WriteInputs : WriteCall(p, b)
    \/ \E p \in Producers : WriteResume(p)
    \/ \E p \in Producers : CloseCall(p)
    \/ \E p \in Producers : CloseResume(p)
    \/ \E p \in Producers : MuxControlRecv(p)
    \/ MuxControlEOF
    \/ \E i \in 2..Len(selectCases) : MuxDataRecv(i)
    \/ MuxDataBody(NoFault)
    \/ \E i \in 2..Len(selectCases) : MuxDataEOF(i, NoFault)
    \/ OwnerCloseControl
    \/ OwnerRecvCompleted

Spec == Init /\ [][Next]_vars

\* the sink may fail or accept less than offered
NextFault ==
    \/ \E p \in Producers : OpenCall(p)
    \/ \E p \in Producers : OpenSendClosed(p)
    \/ \E p \in Producers, b \in OneInput : WriteCall(p, b)
    \/ \E p \in Producers : WriteResume(p)
    \/ \E p \in Producers : CloseCall(p)
    \/ \E p \in Producers : CloseResume(p)
    \/ \E p \in Producers : MuxControlRecv(p)
    \/ MuxControlEOF
    \/ \E i \in 2..Len(selectCases) : MuxDataRecv(i)
    \/ \E flt \in FaultChoices(Len(cur.bytes)) : MuxDataBody(flt)
    \/ \E i \in 2..Len(selectCases), flt \in FaultsOfEOF : MuxDataEOF(i, flt)
    \/ OwnerCloseControl
    \/ OwnerRecvCompleted

\* the handles are on different namespaces
InitFault == Init /\ intent["p2"] = "b.y"

SpecFault == InitFault /\ [][NextFault]_vars

\* callers may call Open on an open handle and Close on a closed one
NextMisuse ==
    \/ \E p \in Producers : OpenCall(p)
    \/ \E p \in Producers : ReOpenCall(p)
    \/ \E p \in Producers : OpenSendClosed(p)
    \/ \E p \in Producers, b \in OneInput : WriteCall(p, b)
    \/ \E p \in Producers : WriteResume(p)
    \/ \E p \in Producers : CloseCall(p)
    \/ \E p \in Producers : CloseAgain(p)
    \/ \E p \in Producers : CloseResume(p)
    \/ \E p \in Producers : MuxControlRecv(p)
    \/ MuxControlEOF
    \/ \E i \in 2..Len(selectCases) : MuxDataRecv(i)
    \/ MuxDataBody(NoFault)
    \/ \E i \in 2..Len(selectCases) : MuxDataEOF(i, NoFault)
    \/ OwnerCloseControl
    \/ OwnerRecvCompleted

SpecMisuse == Init /\ [][NextMisuse]_vars

\* ------------------------------------------------------------------ reading the sink
\* the records of a byte string, walked by their length prefixes; a prefix
\* that does not frame a record ends the walk with BadRecord
BadRecord == <<>>
RECURSIVE Recs(_)
Recs(bytes) ==
    IF bytes = <<>> THEN <<>>
    ELSE LET size == Head(bytes)
         IN  IF size < 2 \/ size > Len(bytes) \/ bytes[size] # 0
             THEN <<BadRecord>>
             ELSE <<SubSeq(bytes, 1, size)>> \o Recs(SubSeq(bytes, size + 1, Len(bytes)))

Rec(r) == [kind |-> "rec", ns |-> NoNamespace, crc |-> 0, bytes |-> r]

\* the sink as the reader sees it: headers, terminators and single records
RECURSIVE Items(_)
Items(snk) ==
    IF snk = <<>> THEN <<>>
    ELSE LET it == Head(snk)
             rs == Recs(it.bytes)
         IN  (IF it.kind = "data" THEN [k \in 1..Len(rs) |-> Rec(rs[k])] ELSE <<it>>)
               \o Items(Tail(snk))

\* The reader of the archive: an open header starts a run of records of its
\* namespace, a terminator ends the run; an eof header is followed by a
\* terminator.  ok: the items read so far fit this; mode: where the reader is;
\* recs: the records attributed to each namespace; segs: the segments read.
ReaderInit ==
    [ok |-> TRUE, mode |-> "top", ns |-> NoNamespace,
     recs |-> [n \in Namespaces |-> <<>>], segs |-> <<>>]

ReaderStep(st, it) ==
    IF ~st.ok THEN st
    ELSE IF st.mode = "top" /\ it.kind = "hdr"
    THEN [st EXCEPT !.mode = "run", !.ns = it.ns,
                    !.segs = Append(@, [kind |-> "run", ns |-> it.ns])]
    ELSE IF st.mode = "top" /\ it.kind = "eof"
    THEN [st EXCEPT !.mode = "eof", !.ns = it.ns,
                    !.segs = Append(@, [kind |-> "eof", ns |-> it.ns])]
    ELSE IF st.mode = "run" /\ it.kind = "rec" /\ it.bytes # BadRecord
    THEN [st EXCEPT !.recs[st.ns] = Append(@, it.bytes)]
    ELSE IF st.mode \in {"run", "eof"} /\ it.kind = "term"
    THEN [st EXCEPT !.mode = "top", !.ns = NoNamespace]
    ELSE [st EXCEPT !.ok = FALSE]

RECURSIVE ReaderRun(_, _)
ReaderRun(st, items) ==
    IF items = <<>> THEN st ELSE ReaderRun(ReaderStep(st, Head(items)), Tail(items))

Read(snk) == ReaderRun(ReaderInit, Items(snk))

\* ------------------------------------------------------------------ what was written
\* CRC(bytes) as the eof header carries it
CRC(bytes) == Sum64AsInt64(hashWrite(0, bytes))

RecItems(bytes) == LET rs == Recs(bytes) IN [k \in 1..Len(rs) |-> Rec(rs[k])]

\* Run has processed the close of handle p: p was registered and is no longer
\* among ins
Deregistered(p) ==
    /\ pc[p] = "closed"
    /\ \A i \in 1..Len(ins) : ins[i] # p

\* the bytes of the sink items written for handle p, of one kind, in sink order
RECURSIVE BytesFor(_, _, _)
BytesFor(snk, for, p) ==
    IF snk = <<>> THEN <<>>
    ELSE (IF Head(for) = p /\ Head(snk).kind = "data" THEN Head(snk).bytes ELSE <<>>)
           \o BytesFor(Tail(snk), Tail(for), p)

\* the positions in the sink of the items of a kind written for handle p
PosFor(kind, p) ==
    {i \in 1..Len(sink) : sinkFor[i] = p /\ sink[i].kind = kind}

\* ------------------------------------------------------------------ C1
\* the layout of a single producer's stream
SingleLayout(p) ==
    Items(sink) =
        <<Header(intent[p])>> \o RecItems(written[p])
          \o <<Terminator, EOFHeader(intent[p], CRC(written[p])), Terminator>>

\* C1: single producer layout.  When one producer alone (the other handle is
\* never opened) has opened, written k >= 1 records and closed, and Run has
\* processed the close, the sink holds exactly: open header, the records in
\* order, terminator, eof header with the CRC of the records, terminator.
C1_SingleProducerLayout ==
    \A p \in Producers :
        ( /\ \A q \in Producers \ {p} : pc[q] = "idle"
          /\ Deregistered(p)
          /\ written[p] # <<>> )
        => SingleLayout(p)

\* a single producer wrote R1 then R2, which took an intermediate flush, and
\* closed; Run has written the eof header
C1_Witness ==
    /\ pc["p2"] = "idle"
    /\ Deregistered("p1")
    /\ written["p1"] = R1 \o R2
    /\ Len(sink) = 6
    /\ SingleLayout("p1")

\* ------------------------------------------------------------------ C2
IsPrefix(a, b) == Len(a) <= Len(b) /\ a = SubSeq(b, 1, Len(a))

\* every producer is on its own namespace, has written, has closed, and Run
\* has processed every close
AllDoneOwnNamespaces ==
    /\ \A p, q \in Producers : p # q => intent[p] # intent[q]
    /\ \A p \in Producers : Deregistered(p) /\ written[p] # <<>>

Block(p) ==
    <<Header(intent[p])>> \o RecItems(written[p])
      \o <<Terminator, EOFHeader(intent[p], CRC(written[p])), Terminator>>

\* C2 as stated: once every producer (each on its own namespace) has opened,
\* written and closed, the sink is the concatenation of one contiguous block
\* per namespace: open header, all its records, terminator, eof header,
\* terminator.
C2_OneBlockPerNamespace ==
    AllDoneOwnNamespaces =>
        \E p, q \in Producers : p # q /\ Items(sink) = Block(p) \o Block(q)

SegsOf(rd, kind, n) ==
    {i \in 1..Len(rd.segs) : rd.segs[i] = [kind |-> kind, ns |-> n]}

\* C2 (amended): once every producer (each on its own namespace) has opened,
\* written and closed, the sink is a concatenation of segments, each a run
\* (open header, records, terminator) or an eof segment (eof header,
\* terminator); every namespace has at least one run, its runs together hold
\* exactly its records in write order, and it has exactly one eof segment,
\* which follows all of its runs.
C2_SegmentsPerNamespace ==
    AllDoneOwnNamespaces =>
        LET rd == Read(sink)
        IN  /\ rd.ok /\ rd.mode = "top"
            /\ \A p \in Producers :
                 /\ rd.recs[intent[p]] = Recs(written[p])
                 /\ SegsOf(rd, "run", intent[p]) # {}
                 /\ Cardinality(SegsOf(rd, "eof", intent[p])) = 1
                 /\ \A i \in SegsOf(rd, "run", intent[p]),
                       j \in SegsOf(rd, "eof", intent[p]) : i < j

\* both producers done, and the runs of one namespace are not contiguous
C2_Witness ==
    /\ AllDoneOwnNamespaces
    /\ Cardinality(SegsOf(Read(sink), "run", "a.x")) >= 2
    /\ Read(sink).ok

\* ------------------------------------------------------------------ C3
\* C3: the crc of a handle's eof header is the checksum of the bytes that
\* handle passed to Write, in order, whatever the shipments and whatever the
\* other handles wrote (0 for a handle that wrote nothing); the eof header of
\* a handle is written once its close has been processed.
C3_EofCrcIsChecksumOfWritten ==
    \A p \in Producers :
        /\ \A i \in PosFor("eof", p) :
             sink[i] = EOFHeader(intent[p], CRC(written[p]))
        /\ Deregistered(p) => Cardinality(PosFor("eof", p)) = 1

\* p1 wrote R1 and R2 in two shipments, p2 wrote nothing; both eof headers are
\* in the sink
C3_Witness ==
    /\ Deregistered("p1") /\ Deregistered("p2")
    /\ written["p1"] = R1 \o R2 /\ written["p2"] = <<>>
    /\ Cardinality(PosFor("data", "p1")) = 2
    /\ \E i \in PosFor("eof", "p2") : sink[i].crc = 0
    /\ \E i \in PosFor("eof", "p1") : sink[i].crc = CRC(R1 \o R2) /\ sink[i].crc # 0

\* ------------------------------------------------------------------ C4
RECURSIVE Count(_, _)
Count(s, x) ==
    IF s = <<>> THEN 0 ELSE (IF Head(s) = x THEN 1 ELSE 0) + Count(Tail(s), x)

ProducerSeq == <<"p1", "p2">>

\* the records written by the producers of namespace n
RECURSIVE WrittenBy(_, _)
WrittenBy(ps, n) ==
    IF ps = <<>> THEN <<>>
    ELSE (IF intent[Head(ps)] = n THEN Recs(written[Head(ps)]) ELSE <<>>)
           \o WrittenBy(Tail(ps), n)

SameBag(a, b) ==
    /\ Len(a) = Len(b)
    /\ \A k \in 1..Len(a) : Count(a, a[k]) = Count(b, a[k])

\* the namespace of the most recent open header before sink position i with
\* no terminator in between (NoNamespace: none)
NsAt(i) ==
    LET hs == {h \in 1..(i - 1) :
                 /\ sink[h].kind = "hdr"
                 /\ \A k \in h..(i - 1) : sink[k].kind \in {"hdr", "data"}
                 /\ \A k \in (h + 1)..(i - 1) : sink[k].kind # "hdr"}
    IN  IF hs = {} THEN NoNamespace ELSE sink[CHOOSE h \in hs : TRUE].ns

\* C4: once every producer has closed, reading the sink and attributing each
\* record to the namespace of the most recent open header gives, per
\* namespace, exactly the multiset of records its producers wrote; and every
\* record in the sink lies in a run opened by a header of its own namespace.
C4_RoundTrip ==
    /\ \A i \in 1..Len(sink) :
         sink[i].kind = "data" => NsAt(i) = intent[sinkFor[i]]
    /\ (\A p \in Producers : pc[p] = "closed") =>
         LET rd == Read(sink)
         IN  /\ rd.ok
             /\ \A n \in Namespaces : SameBag(rd.recs[n], WrittenBy(ProducerSeq, n))

\* both producers closed after interleaved shipments of different records
C4_Witness ==
    /\ \A p \in Producers : pc[p] = "closed"
    /\ intent["p2"] = "b.y"
    /\ written["p1"] = R1 \o R2 /\ written["p2"] = R2 \o R2
    /\ Read(sink).recs["a.x"] = <<R1, R2>>
    /\ Read(sink).recs["b.y"] = <<R2, R2>>
    /\ Cardinality({i \in 1..Len(sink) : sink[i].kind = "hdr"}) = 4

\* ------------------------------------------------------------------ C5
\* C5: the bytes written to the sink for a handle are, in sink order, a
\* prefix of the bytes the producer passed to Write, all of them once its
\* Close has returned; and they all precede the handle's eof header.
C5_PerProducerOrder ==
    \A p \in Producers :
        /\ IsPrefix(BytesFor(sink, sinkFor, p), written[p])
        /\ pc[p] = "closed" => BytesFor(sink, sinkFor, p) = written[p]
        /\ \A i \in PosFor("data", p), j \in PosFor("eof", p) : i < j

\* p1's two records went out in two shipments with a shipment of p2 between
C5_Witness ==
    /\ written["p1"] = R1 \o R2
    /\ PosFor("eof", "p1") # {}
    /\ \E i, j \in PosFor("data", "p1"), k \in PosFor("data", "p2") :
         i < k /\ k < j /\ sink[i].bytes = R1 /\ sink[j].bytes = R2

\* ------------------------------------------------------------------ C6
\* C6: when Control is closed only after every producer's Close has returned
\* (and the sink never fails), the value Run publishes on Completed is nil, the
\* sink has been closed and holds the eof header of every registered handle.
C6_CleanShutdown ==
    (cleanClose /\ completed # <<>>) =>
        /\ completed = <<"nil">>
        /\ outClosed
        /\ \A k \in 1..Len(registered) : PosFor("eof", registered[k]) # {}

\* ------------------------------------------------------------------ C7
Published == muxpc \in {"publish", "returned"}

ShortOnRecord == [handler |-> "body", at |-> 3, kind |-> "short"]
NewFault == Len(faultLog') = Len(faultLog) + 1
LastFault == faultLog'[Len(faultLog')]

C9_CloseAlwaysCloses ==
    \A p \in Producers :
        (ret[p].call = "Close" /\ pc[p] \in {"ready", "closed"}) =>
            ChanOf(p) \in closedChans

\* ------------------------------------------------------------------ C10
\* C10: a second Open on a handle fails with AlreadyOpen: the handle keeps its
\* channels, buffer and checksum, is not sent on Control again and is
\* registered at most once.
C10_SecondOpenFails ==
    \A p \in Producers :
        opens[p] >= 2 =>
            /\ gen[p] = 1
            /\ pc[p] # "open_send"
            /\ Count(registered, p) <= 1
            /\ ret[p] = [call |-> "Open", err |-> "AlreadyOpen"]

\* ------------------------------------------------------------------ C11
\* C11: a second Close on a closed handle returns an error to its caller and
\* does not abort the process: the process is never gone except by an Open
\* whose send met the closed Control.
C11_SecondCloseReturnsError ==
    panicked => \E q \in Producers : pc[q] = "open_send" /\ ctlClosed

\* ------------------------------------------------------------------ C12, C13
\* handle p is the only one in use
Alone(p) == \A q \in Handles \ {p} : pc[q] = "idle"

\* C12 as stated: a producer that opens and closes without a Write, alone
\* and with a sink that never fails, causes exactly two items: the eof header
\* of its namespace with crc 0, then a terminator.
C12_EmptyStreamEofOnly ==
    \A p \in Producers :
        (Alone(p) /\ Deregistered(p) /\ calls[p] = <<>>) =>
            sink = <<EOFHeader(intent[p], 0), Terminator>>

\* C12 (amended): Close ships the handle's buffer whatever its length, so a
\* producer that opens and closes without a Write sends one empty buffer,
\* for which Run writes the open header of its namespace and no bytes; once
\* Run has processed the close the sink holds four items, the eof header
\* with crc 0 being the third, after the open header and a terminator and
\* before the closing terminator.
C12_EmptyStreamHeaderFirst ==
    \A p \in Producers :
        (Alone(p) /\ calls[p] = <<>>) =>
            /\ shipped[p] \in {<<>>, << <<>> >>}
            /\ pc[p] \in {"c_acked", "closed"} =>
                 (shipped[p] = << <<>> >> /\ sink # <<>> /\ sink[1] = Header(intent[p]))
            /\ Deregistered(p) =>
                 /\ Len(sink) = 4
                 /\ sink[2] = Terminator
                 /\ sink[3] = EOFHeader(intent[p], 0)
                 /\ sink[4] = Terminator

\* the second handle opened and closed without a Write while the first
\* stayed unopened, and Run has processed the close
C12_Witness ==
    /\ Alone("p2") /\ Deregistered("p2")
    /\ calls["p2"] = <<>> /\ shipped["p2"] = << <<>> >>
    /\ Len(sink) = 4

\* C13: a producer that opens and then closes without a Write, alone and with
\* a sink that never fails, causes exactly: the open header of its namespace,
\* a terminator, the eof header of its namespace with crc 0, a terminator.
C13_EmptyStreamFullFrame ==
    \A p \in Producers :
        (Alone(p) /\ Deregistered(p) /\ calls[p] = <<>>) =>
            sink = <<Header(intent[p]), Terminator,
                     EOFHeader(intent[p], 0), Terminator>>

\* the first handle opened and closed without a Write, the second stayed
\* unopened, Run has processed the close and Control is still open
C13_Witness ==
    /\ Alone("p1") /\ Deregistered("p1")
    /\ writes["p1"] = 0
    /\ sink # <<>> /\ sink[Len(sink)] = Terminator
    /\ muxpc = "select" /\ ~ctlClosed

\* ------------------------------------------------------------------ C14
\* C14: whenever Run is between events, a non-empty currentNamespace N means
\* the last item written is the open header of N or a record buffer of a
\* handle of namespace N, and an empty currentNamespace means the last item
\* written, if there is one, is a terminator; and the sink never holds two
\* terminators in a row.
C14_CurrentNamespaceInvariant ==
    /\ muxpc = "select" =>
         IF currentNamespace # NoNamespace
         THEN /\ sink # <<>>
              /\ \/ sink[Len(sink)] = Header(currentNamespace)
                 \/ /\ sink[Len(sink)].kind = "data"
                    /\ intent[sinkFor[Len(sink)]] = currentNamespace
         ELSE sink = <<>> \/ sink[Len(sink)] = Terminator
    /\ \A i \in 1..(Len(sink) - 1) :
         ~(sink[i] = Terminator /\ sink[i + 1] = Terminator)

\* Run is between events in a block of namespace a.x that the first handle
\* began and the second handle, of the same namespace, continued after the
\* first one's stream was ended
C14_Witness ==
    /\ muxpc = "select"
    /\ currentNamespace = "a.x" /\ intent["p2"] = "a.x"
    /\ sink[Len(sink)].kind = "data" /\ sinkFor[Len(sink)] = "p2"
    /\ PosFor("eof", "p1") # {}
    /\ PosFor("data", "p1") # {}

\* ------------------------------------------------------------------ three handles
\* three handles that open and close without a Write; the sink never fails
NextThree ==
    \/ \E p \in Handles : OpenCall(p)
    \/ \E p \in Handles : OpenSendClosed(p)
    \/ \E p \in Handles : CloseCall(p)
    \/ \E p \in Handles : CloseResume(p)
    \/ \E p \in Handles : MuxControlRecv(p)
    \/ MuxControlEOF
    \/ \E i \in 2..Len(selectCases) : MuxDataRecv(i)
    \/ MuxDataBody(NoFault)
    \/ \E i \in 2..Len(selectCases) : MuxDataEOF(i, NoFault)
    \/ OwnerCloseControl
    \/ OwnerRecvCompleted

SpecThree == Init /\ [][NextThree]_vars

\* ------------------------------------------------------------------ C15
\* Run has processed the close of handle h's data channel
EOFProcessed(h) == PosFor("eof", h) # {}

\* C15: ins and selectCases have the same length; index 1 is the Control case
\* with a nil handle; every later case is the data channel of the handle at
\* the same index; no handle is there twice; and the handles there are, in the
\* order they were registered, the registered handles whose close Run has not
\* processed.  (It holds while every handle is opened once: under Spec and,
\* with three handles and removals in the middle, under SpecThree.)
C15_ParallelSlices ==
    /\ Len(ins) = Len(selectCases)
    /\ ins[1] = NilHandle /\ selectCases[1] = ControlChan
    /\ \A i \in 2..Len(ins) :
         ins[i] \in Handles /\ selectCases[i] = ChanOf(ins[i])
    /\ \A i, j \in 2..Len(ins) : i # j => ins[i] # ins[j]
    /\ Tail(ins) = SelectSeq(registered, LAMBDA h : ~EOFProcessed(h))

\* ------------------------------------------------------------------ C16
\* producer p has sent its buffer and is blocked on the receive of the ack
InWindow(p) == pc[p] \in {"w_wait", "c_wait"}

\* C16: while Run holds a buffer it received, the handle it came from is
\* blocked waiting for the ack, no other handle is, and the buffer Run holds
\* is the handle's buffer as it is now; Run holds no buffer at any other time;
\* and a producer waiting for the ack changes neither its buffer, its
\* capacity nor its shipments, and leaves the wait only by the ack that Run
\* sends from its handling of that buffer.
C16_HandshakeExclusion ==
    /\ [](muxpc = "body" =>
            /\ cur.index \in 2..Len(ins)
            /\ InWindow(ins[cur.index])
            /\ cur.bytes = buf[ins[cur.index]]
            /\ \A q \in Producers \ {ins[cur.index]} : ~InWindow(q))
    /\ [](muxpc # "body" => cur = NoCur)
    /\ [][\A p \in Producers :
            InWindow(p) =>
               /\ buf'[p] = buf[p] /\ bufCap'[p] = bufCap[p]
               /\ shipped'[p] = shipped[p]
               /\ pc'[p] # pc[p] => (muxpc = "body" /\ ins[cur.index] = p
                                       /\ pc'[p] = Acked(pc[p]))]_vars

\* Run holds the non-empty buffer of the first handle, which is blocked in
\* Write, while the second handle has records buffered and is free to go on
C16_Witness ==
    /\ muxpc = "body"
    /\ pc["p1"] = "w_wait" /\ cur.bytes = buf["p1"] /\ buf["p1"] # <<>>
    /\ pc["p2"] = "ready" /\ buf["p2"] # <<>>

\* ------------------------------------------------------------------ C17
\* C17: on every path, sink write errors included, Run answers the buffer it
\* received with an ack, so that once Run has returned no producer is left
\* waiting for the ack of a buffer it sent.
C17_EveryBufferAcked ==
    muxpc = "returned" => \A p \in Producers : ~InWindow(p)

\* ------------------------------------------------------------------ C18
\* the handles the record buffers in the sink were written for, in sink order
RECURSIVE DataOwners(_, _)
DataOwners(snk, for) ==
    IF snk = <<>> THEN <<>>
    ELSE (IF Head(snk).kind = "data" THEN <<Head(for)>> ELSE <<>>)
           \o DataOwners(Tail(snk), Tail(for))

\* the items of one kind in the sink, in sink order
OfKind(kind) == SelectSeq(sink, LAMBDA it : it.kind = kind)

\* the buffers received so far came from the two handles in turn, twice
\* each, the handles are on different namespaces and no stream has ended
ShipmentsABAB ==
    /\ intent["p1"] # intent["p2"]
    /\ DataOwners(sink, sinkFor) = <<"p1", "p2", "p1", "p2">>
    /\ OfKind("eof") = <<>>
    /\ muxpc = "select"

\* C18: handling a buffer of handle h, Run writes a terminator (if
\* currentNamespace is not empty) and then the open header of h's namespace
\* exactly when that namespace differs from currentNamespace, and no framing
\* otherwise; then the bytes.  Buffers arriving in the order A, B, A, B from
\* two handles on namespaces A and B give four open headers A, B, A, B and
\* three terminators, one before each header but the first.
C18_HeaderSwitching ==
    /\ [][(muxpc = "body" /\ muxpc' # "body") =>
            LET ns == intent[ins[cur.index]]
                framing ==
                    IF ns # currentNamespace
                    THEN (IF currentNamespace # NoNamespace
                          THEN <<Terminator>> ELSE <<>>) \o <<Header(ns)>>
                    ELSE <<>>
                bytes == IF cur.bytes = <<>> THEN <<>> ELSE <<Data(cur.bytes)>>
            IN  sink' = sink \o framing \o bytes]_vars
    /\ [](ShipmentsABAB =>
            /\ OfKind("hdr") = <<Header(intent["p1"]), Header(intent["p2"]),
                                 Header(intent["p1"]), Header(intent["p2"])>>
            /\ Len(OfKind("term")) = 3
            /\ \A i \in 2..Len(sink) :
                 sink[i].kind = "hdr" <=> sink[i - 1] = Terminator)

\* the buffers came in the order A, B, A, B and the sink holds, for each, its
\* header and its bytes, with a terminator between one buffer and the next
C18_Witness ==
    /\ ShipmentsABAB
    /\ Len(sink) = 11
    /\ sink[1] = Header("a.x") /\ sink[4] = Header("b.y")
    /\ sink[7] = Header("a.x") /\ sink[10] = Header("b.y")
    /\ sink[3] = Terminator /\ sink[6] = Terminator /\ sink[9] = Terminator

\* ------------------------------------------------------------------ inputs longer than the buffer
\* the sink never fails; a Write may pass more bytes than the buffer holds
NextBig ==
    \/ \E p \in Producers : OpenCall(p)
    \/ \E p \in Producers : OpenSendClosed(p)
    \/ \E p \in Producers, b \in BigInputs : WriteCall(p, b)
    \/ \E p \in Producers : WriteResume(p)
    \/ \E p \in Producers : CloseCall(p)
    \/ \E p \in Producers : CloseResume(p)
    \/ \E p \in Producers : MuxControlRecv(p)
    \/ MuxControlEOF
    \/ \E i \in 2..Len(selectCases) : MuxDataRecv(i)
    \/ MuxDataBody(NoFault)
    \/ \E i \in 2..Len(selectCases) : MuxDataEOF(i, NoFault)
    \/ OwnerCloseControl
    \/ OwnerRecvCompleted

SpecBig == InitFault /\ [][NextBig]_vars

\* ------------------------------------------------------------------ C19
\* the concatenation of a sequence of byte strings
RECURSIVE Flat(_)
Flat(ss) == IF ss = <<>> THEN <<>> ELSE Head(ss) \o Flat(Tail(ss))

\* the offsets, in the bytes a producer passed to Write, at which an input
\* begins or ends
Boundaries(cs) == {Len(Flat(SubSeq(cs, 1, k))) : k \in 0..Len(cs)}

\* C19 as stated, the capacity being the one Open gives the buffer: a Write
\* call ships the buffer exactly when the length of the buffer plus the
\* length of its input exceeds bufferSize.
C19_ShipsAtFixedCapacity ==
    [][\A p \in Producers :
         Len(calls'[p]) > Len(calls[p]) =>
            LET b == calls'[p][Len(calls'[p])]
            IN  (pc'[p] = "w_send") <=> (Len(buf[p]) + Len(b) > bufferSize)]_vars

\* C19 (amended): the buffers a producer sent are, one after the other, the
\* bytes it passed to Write, cut only where one input ends and the next
\* begins (a buffer holds the whole inputs of zero or more consecutive Write
\* calls and no input is divided between two buffers); there is at most one
\* shipment per Write call, and one by Close; and a Write call ships the
\* buffer exactly when the length of the buffer plus the length of its input
\* exceeds the capacity the buffer has at the call (which is larger than
\* bufferSize once a longer input was appended), and appends its input
\* otherwise.
C19_WholeInputsPerShipment ==
    /\ [](\A p \in Producers :
            /\ IsPrefix(Flat(shipped[p]), Flat(calls[p]))
            /\ \A j \in 0..Len(shipped[p]) :
                 Len(Flat(SubSeq(shipped[p], 1, j))) \in Boundaries(calls[p])
            /\ Len(shipped[p]) <=
                 Len(calls[p]) + (IF pc[p] \in {"c_wait", "c_acked", "closed"}
                                  THEN 1 ELSE 0))
    /\ [][\A p \in Producers :
            Len(calls'[p]) > Len(calls[p]) =>
               LET b == calls'[p][Len(calls'[p])]
               IN  IF Len(buf[p]) + Len(b) > bufCap[p]
                   THEN pc'[p] = "w_send" /\ buf'[p] = buf[p]
                   ELSE pc'[p] = "ready" /\ buf'[p] = buf[p] \o b]_vars

\* the first handle passed an input longer than the buffer to its first
\* Write, which shipped the empty buffer, and a second input that the grown
\* buffer took; Close shipped both inputs in one buffer longer than bufferSize
C19_Witness ==
    /\ calls["p1"] = <<R2 \o R2, R1>>
    /\ shipped["p1"] = << <<>>, R2 \o R2 \o R1 >>
    /\ Len(R2 \o R2) > bufferSize
    /\ pc["p1"] = "closed"
    /\ \E q \in Producers : Len(shipped[q]) = 2 /\ shipped[q][1] = R1

\* ------------------------------------------------------------------ a fair run
\* close(mux.Control) once the Close of every producer has returned
OwnerCloseClean ==
    /\ \A p \in Producers : pc[p] = "closed"
    /\ OwnerCloseControl

\* the steps of one producer, of Run and of the owner
ProducerStep(p) ==
    \/ OpenCall(p)
    \/ \E b \in OneInput : WriteCall(p, b)
    \/ WriteResume(p)
    \/ CloseCall(p)
    \/ CloseResume(p)

MuxStep ==
    \/ \E p \in Producers : MuxControlRecv(p)
    \/ MuxControlEOF
    \/ \E i \in 2..Len(selectCases) : MuxDataRecv(i)
    \/ MuxDataBody(NoFault)
    \/ \E i \in 2..Len(selectCases) : MuxDataEOF(i, NoFault)

OwnerStep == OwnerCloseClean \/ OwnerRecvCompleted

\* the sink never fails; every producer opens once, writes and closes once;
\* the owner closes Control after every Close returned, then receives from
\* Completed
NextLive ==
    \/ \E p \in Producers : OpenCall(p)
    \/ \E p \in Producers, b \in OneInput : WriteCall(p, b)
    \/ \E p \in Producers : WriteResume(p)
    \/ \E p \in Producers : CloseCall(p)
    \/ \E p \in Producers : CloseResume(p)
    \/ \E p \in Producers : MuxControlRecv(p)
    \/ MuxControlEOF
    \/ \E i \in 2..Len(selectCases) : MuxDataRecv(i)
    \/ MuxDataBody(NoFault)
    \/ \E i \in 2..Len(selectCases) : MuxDataEOF(i, NoFault)
    \/ OwnerCloseClean
    \/ OwnerRecvCompleted

\* every goroutine that can take a step is scheduled eventually
SpecLive ==
    /\ Init
    /\ [][NextLive]_vars
    /\ \A p \in Producers : WF_vars(ProducerStep(p))
    /\ WF_vars(MuxStep)
    /\ WF_vars(OwnerStep)

\* ------------------------------------------------------------------ C20
\* producer p is inside a call of Open, Write or Close
InCall(p) == pc[p] \notin {"idle", "ready", "closed"}

\* C20: with a sink that never fails, producers that open once, write and
\* close once, and an owner that closes Control after every Close returned
\* and then receives from Completed, under weak fairness of every goroutine:
\* every Open, Write and Close call returns, Run publishes one value on
\* Completed, exactly one, and returns, and Run never sends an ack to a
\* handle that has closed its channels.
C20_DeadlockFreedom ==
    /\ \A p \in Producers : InCall(p) ~> ~InCall(p)
    /\ <>(/\ muxpc = "returned"
          /\ Len(completed) = 1
          /\ \A p \in Producers : pc[p] = "closed")
    /\ [](Len(completed) <= 1)
    /\ [][\A p \in Producers :
            (InWindow(p) /\ pc'[p] = Acked(pc[p])) =>
               (ChanOf(p) \notin closedChans /\ ChanOf(p) \notin closedChans')]_vars

\* both producers wrote and closed, the owner closed Control and received
\* the one value Run published; Run has returned
C20_Witness ==
    /\ muxpc = "returned"
    /\ Len(completed) = 1
    /\ cleanClose
    /\ \A p \in Producers : pc[p] = "closed" /\ writes[p] = MaxWrites

====
